---- MODULE Spec2Model ----
(***************************************************************************)
(* Model of the publish / unpublish pipeline of website-dispatch           *)
(* (src-tauri/src/publish.rs).  One invocation of publish_file or          *)
(* unpublish_file runs at a time; every git subprocess the code spawns is  *)
(* one step of the invocation, and its exit status and captured output are *)
(* inputs chosen by the environment.                                       *)
(***************************************************************************)
EXTENDS Integers, Sequences, FiniteSets, TLC

\* ------------------------------------------------------------------ bounds
\* number of publish/unpublish invocations in one behaviour
MaxCalls == 2

\* calendar years chrono::Utc::now() can report during one behaviour
Years == {2025, 2026}

Slugs == {"a", "b"}

None == "none"

\* ------------------------------------------------------- strings and paths
\* Strings the code inspects are sequences of one-character strings.
DigitChars == {"0", "1", "2", "3", "4", "5", "6", "7", "8", "9"}

DigitChar(n) ==
    CASE n = 0 -> "0" [] n = 1 -> "1" [] n = 2 -> "2" [] n = 3 -> "3"
      [] n = 4 -> "4" [] n = 5 -> "5" [] n = 6 -> "6" [] n = 7 -> "7"
      [] n = 8 -> "8" [] n = 9 -> "9"

\* chrono's format("%Y") of a year: four decimal digits
YearStr(y) ==
    << DigitChar((y \div 1000) % 10), DigitChar((y \div 100) % 10),
       DigitChar((y \div 10) % 10), DigitChar(y % 10) >>

\* str::starts_with
StartsWith(s, p) ==
    /\ Len(p) <= Len(s)
    /\ \A i \in 1..Len(p) : s[i] = p[i]

\* str::contains
Contains(s, p) ==
    \E k \in 0..(Len(s) - Len(p)) : \A i \in 1..Len(p) : s[k + i] = p[i]

\* source_path.replace('\\', "/")
Normalize(s) == [i \in 1..Len(s) |-> IF s[i] = "\\" THEN "/" ELSE s[i]]

\* Config::default().vault_path (abbreviated to one short segment)
VaultPath == <<"/", "v">>

BlogSeg == <<"/", "b", "l", "o", "g", "/">>
DraftsSeg == <<"/", "d", "r", "a", "f", "t", "s", "/">>

\* source paths a caller can pass to publish
SrcBackslash == <<"\\", "v", "\\", "b", "l", "o", "g", "\\", "a">>
SrcGone == <<"/", "v", "/", "b", "l", "o", "g", "/", "g">>

SrcPaths ==
    LET SrcBlogA ==
            <<"/", "v", "/", "b", "l", "o", "g", "/", "a">>
        SrcDraftB ==
            <<"/", "v", "/", "d", "r", "a", "f", "t", "s", "/", "b">>
        SrcNoteA ==
            <<"/", "v", "/", "n", "o", "t", "e", "s", "/", "a">>
        SrcOutside ==
            <<"/", "x", "/", "b", "l", "o", "g", "/", "a">>
        SrcSibling ==
            <<"/", "v", "v", "/", "b", "l", "o", "g", "/", "a">>
    IN {SrcBlogA, SrcDraftB, SrcNoteA, SrcOutside,
        SrcSibling, SrcBackslash, SrcGone}

\* the integrity check of publish_file
PathAllowed(source_path) ==
    LET normalized_path == Normalize(source_path) IN
    ~ ( \/ ~StartsWith(normalized_path, VaultPath)
        \/ (~Contains(normalized_path, BlogSeg) /\ ~Contains(normalized_path, DraftsSeg)) )

\* ------------------------------------------------------ publication tree
\* directory names that can exist under <repo>/content/blog
MiscDir == <<"m", "i", "s", "c">>
DirNames == {YearStr(y) : y \in Years} \cup {MiscDir}

\* <repo>/content/drafts
DraftsLoc == <<"content/drafts">>

\* the year-directory test of unpublish_file
IsYearDir(dir_name) ==
    ~(Len(dir_name) # 4 \/ ~(\A i \in 1..Len(dir_name) : dir_name[i] \in DigitChars))

Paths == (DirNames \cup {DraftsLoc}) \X Slugs

VARIABLES
    pc,        \* position of the running invocation
    op,        \* "publish" | "unpublish" | None
    arg,       \* arguments of the running invocation
    year,      \* the year string computed by the running publish
    found,     \* the directory unpublish found the slug in
    clock,     \* current calendar year
    files,     \* files outside the publication repo: path -> content
    dirs,      \* directories present in the publication tree
    tree,      \* files of the publication working tree
    index,     \* git index of the publication repo
    head,      \* last commit of the publication repo
    cmds,      \* git commands issued by the running invocation, with results
    result,    \* value returned by the invocation
    pre,       \* "pass" / "fail": what the preflight probes of the running
               \* invocation showed about the repository; "none" before they ran
    start,     \* publication tree when the invocation began
    last,      \* the previous invocation, when it returned Ok
    calls,     \* invocations begun
    git,       \* what the git probes of the status commands answer
    spc,       \* position of the running check_git_status
    ran,       \* probes check_git_status has run, in order
    verdict,   \* value returned by check_git_status
    report,    \* GitStatus values returned by get_git_status
    root,      \* the vault root directory exists
    vault,     \* paths of the files in the vault
    todo,      \* vault entries the running scan has not visited yet
    limit,     \* argument of the scan, once it was used
    listing,   \* descriptors the running scan has collected
    scanned,   \* value returned by the scan
    text,      \* content of the document a text command works on
    other,     \* the text it is compared with, or its content before the command
    outcome,   \* values returned by the text commands
    steps      \* text commands run

\* state of the status commands
statusvars == << git, spc, ran, verdict, report >>

\* state of the scan command
scanvars == << root, vault, todo, limit, listing, scanned >>

\* state of the text commands (content_differs, add_tag_to_file)
textvars == << text, other, outcome, steps >>

aux == << statusvars, scanvars, textvars >>

vars == << pc, op, arg, year, found, clock, files, dirs, tree, index, head,
           cmds, result, pre, start, last, calls, aux >>

\* ------------------------------------------------- subprocess results
\* std::process::Output of one Command::output() call: spawn = the Err case,
\* success = exit status zero, stdout / stderr = captured text as a sequence
\* of phrases.
Out(spawn, success, stdout, stderr) ==
    [spawn |-> spawn, success |-> success, stdout |-> stdout, stderr |-> stderr]

SpawnErr == Out(TRUE, FALSE, <<>>, <<>>)

\* Result<_, String>
Ok(v) == [ok |-> TRUE, val |-> v]
Err(e) == [ok |-> FALSE, val |-> e]
NoResult == [ok |-> FALSE, val |-> <<>>]

\* captured text is a sequence of characters or of phrases
\* char::is_whitespace, for the characters used here
Whitespace == {" ", "\n", "\t", "\r"}

\* str::trim_start, str::trim_end, str::trim
RECURSIVE str_trim_start(_)
str_trim_start(s) ==
    IF s # <<>> /\ Head(s) \in Whitespace THEN str_trim_start(Tail(s)) ELSE s

RECURSIVE str_trim_end(_)
str_trim_end(s) ==
    IF s # <<>> /\ s[Len(s)] \in Whitespace
    THEN str_trim_end(SubSeq(s, 1, Len(s) - 1))
    ELSE s

str_trim(s) == str_trim_end(str_trim_start(s))

\* what the four probes of check_git_status can return
RevParseOuts ==
    {SpawnErr, Out(FALSE, FALSE, <<>>, <<"fatal: not a git repository">>),
     Out(FALSE, TRUE, <<".git">>, <<>>)}

BranchOuts ==
    {SpawnErr, Out(FALSE, TRUE, <<"\n">>, <<>>),
     Out(FALSE, TRUE, <<"main", "\n">>, <<>>)}

ConflictOuts ==
    {SpawnErr, Out(FALSE, TRUE, <<>>, <<>>),
     Out(FALSE, TRUE, <<"content/blog/2025/a.md", "\n">>, <<>>)}

Probes ==
    [revparse : RevParseOuts,
     status : {SpawnErr, Out(FALSE, TRUE, <<>>, <<>>), Out(FALSE, TRUE, <<" M README">>, <<>>)},
     branch : BranchOuts,
     conflicts : ConflictOuts]

ErrNotRepoSpawn == <<"Not a git repository: {}">>
ErrNotRepo == <<"Not a git repository">>
ErrStatus == <<"Git status failed: {}">>
ErrBranch == <<"Git branch check failed: {}">>
ErrDetached == <<"Detached HEAD state - please checkout a branch">>
ErrConflictSpawn == <<"Git conflict check failed: {}">>
ErrConflicts == <<"Merge conflicts detected - please resolve before publishing">>

\* check_git_status: the preflight check
check_git_status(g) ==
    IF g.revparse.spawn THEN Err(ErrNotRepoSpawn)
    ELSE IF ~g.revparse.success THEN Err(ErrNotRepo)
    ELSE IF g.status.spawn THEN Err(ErrStatus)
    ELSE IF g.branch.spawn THEN Err(ErrBranch)
    ELSE IF str_trim(g.branch.stdout) = <<>> THEN Err(ErrDetached)
    ELSE IF g.conflicts.spawn THEN Err(ErrConflictSpawn)
    ELSE IF str_trim(g.conflicts.stdout) # <<>> THEN Err(ErrConflicts)
    ELSE Ok(<<>>)

\* ----------------------------------------------------------- git commands
NothingToCommit == "nothing to commit"
EverythingUpToDate == "Everything up-to-date"
UpToDate == "up to date"

\* git add
AddOuts ==
    {SpawnErr, Out(FALSE, FALSE, <<>>, <<"fatal: pathspec">>),
     Out(FALSE, TRUE, <<>>, <<>>)}

\* git commit -m: creates a commit only when the index differs from HEAD
CommitOuts(staged) ==
    {SpawnErr, Out(FALSE, FALSE, <<>>, <<"hook declined">>)}
    \cup (IF staged
          THEN {Out(FALSE, TRUE, <<"1 file changed">>, <<>>)}
          ELSE {Out(FALSE, FALSE, <<"On branch main", NothingToCommit>>, <<>>)})

\* git pull --rebase --autostash
PullOuts ==
    {SpawnErr, Out(FALSE, FALSE, <<>>, <<"CONFLICT">>),
     Out(FALSE, TRUE, <<"Already up to date.">>, <<>>)}

\* git rebase --abort
AbortOuts ==
    {Out(FALSE, FALSE, <<>>, <<"No rebase in progress?">>),
     Out(FALSE, TRUE, <<>>, <<>>)}

\* git push
PushOuts ==
    {SpawnErr,
     Out(FALSE, TRUE, <<>>, <<"main -> main">>),
     Out(FALSE, FALSE, <<>>, <<"! [rejected]">>),
     Out(FALSE, FALSE, <<>>, <<EverythingUpToDate>>),
     Out(FALSE, FALSE, <<>>, <<"remote:", UpToDate>>),
     Out(FALSE, FALSE, <<EverythingUpToDate>>, <<>>)}

Issued(cmd, o) == [cmd |-> cmd, out |-> o]

\* ------------------------------------------------------------------ state
\* the repository as the probes show it: a git working copy, on a branch,
\* without unresolved conflicts, every probe having run
Healthy(g) ==
    /\ ~g.revparse.spawn /\ g.revparse.success
    /\ ~g.status.spawn
    /\ ~g.branch.spawn /\ \E i \in 1..Len(g.branch.stdout) : g.branch.stdout[i] \notin Whitespace
    /\ ~g.conflicts.spawn /\ \A i \in 1..Len(g.conflicts.stdout) : g.conflicts.stdout[i] \in Whitespace

NoArg == [src |-> <<>>, slug |-> ""]
NoCall == [op |-> None, arg |-> NoArg, year |-> <<>>, result |-> NoResult]

\* publication trees a run can start from: the locations holding one slug
\* (published, drafted, both, or under a directory that is no year), the
\* other slug being absent; file contents are opaque values, "c0" in the
\* publication tree (older than the vault's) and "c1" in the vault
FirstYear == CHOOSE y \in Years : \A z \in Years : y <= z

\* no status command is running
StatusOff ==
    /\ git = <<>>
    /\ spc = "off"
    /\ ran = <<>>
    /\ verdict = NoResult
    /\ report = <<>>

\* no scan is running
ScanOff ==
    /\ root = TRUE
    /\ vault = {}
    /\ todo = {}
    /\ limit = 0
    /\ listing = <<>>
    /\ scanned = NoResult

\* no text command is running
TextOff ==
    /\ text = <<>>
    /\ other = <<>>
    /\ outcome = <<>>
    /\ steps = 0

Init ==
    /\ pc = "idle"
    /\ op = None
    /\ arg = NoArg
    /\ year = <<>>
    /\ found = <<>>
    /\ clock = FirstYear
    /\ files = [p \in SrcPaths |-> IF p \in {SrcBackslash, SrcGone} THEN None ELSE "c1"]
    /\ \E s \in Slugs,
          held \in {{}, {YearStr(FirstYear)}, {DraftsLoc}, {YearStr(FirstYear), DraftsLoc},
                    {MiscDir}} :
          /\ tree = [p \in Paths |-> IF p[2] = s /\ p[1] \in held THEN "c0" ELSE None]
          /\ dirs = held
    /\ index = tree
    /\ head = tree
    /\ cmds = <<>>
    /\ result = NoResult
    /\ pre = "none"
    /\ start = [dirs |-> dirs, tree |-> tree, index |-> index, head |-> head]
    /\ last = NoCall
    /\ calls = 0
    /\ StatusOff /\ ScanOff /\ TextOff

\* --------------------------------------------------------------- actions
\* common bookkeeping when a command of the application is invoked
Begin(o, a) ==
    /\ pc \in {"idle", "done"}
    /\ calls < MaxCalls
    /\ calls' = calls + 1
    /\ op' = o
    /\ arg' = a
    /\ year' = <<>>
    /\ found' = <<>>
    /\ cmds' = <<>>
    /\ pre' = "none"
    /\ start' = ([dirs |-> dirs, tree |-> tree, index |-> index, head |-> head])
    /\ last' = IF pc = "done" /\ result.ok
               THEN [op |-> op, arg |-> arg, year |-> year, result |-> result]
               ELSE NoCall
    /\ UNCHANGED aux

\* the invocation returns r
Return(r) ==
    /\ pc' = "done"
    /\ result' = r

Continue(next) ==
    /\ pc' = next
    /\ result' = NoResult

ErrCreateDir == <<"Failed to create dir: {}">>
ErrCopy == <<"Failed to copy: {}">>
ErrAddSpawn == <<"Git add failed: {}">>
ErrCommitSpawn == <<"Git commit failed: {}">>
ErrPullSpawn == <<"Git pull failed: {}">>
ErrCreateDrafts == <<"Failed to create drafts dir: {}">>
ErrNotFound == <<"Published file not found">>
ErrDraftExists == <<"Draft already exists: {}">>
ErrMove == <<"Failed to move file: {}">>

\* format!("https://ejfox.com/blog/{}/{}", year, slug)
\* mutant of Url: the year is a fixed one, not the invocation's
UrlOfFixedYear(y, slug) == <<"https://ejfox.com/blog/", YearStr(FirstYear), slug>>

Url(y, slug) == <<"https://ejfox.com/blog/", y, slug>>

\* publish_file, entry: the integrity check on the source path
PublishCheck(source_path, slug) ==
    /\ Begin("publish", [src |-> source_path, slug |-> slug])
    /\ IF ~PathAllowed(source_path)
       THEN Return(Err(<<"Publish blocked: file must live in vault blog/ or drafts/">>))
       ELSE Continue("preflight")
    /\ UNCHANGED << clock, files, dirs, tree, index, head >>

\* mutant of PublishPreflight: the result of the preflight check is dropped
PublishPreflightUnchecked(g) ==
    /\ pc = "preflight" /\ op = "publish"
    /\ Continue("materialize")
    /\ pre' = IF Healthy(g) THEN "pass" ELSE "fail"
    /\ UNCHANGED << op, arg, year, found, clock, files, dirs, tree, index, head,
                    cmds, start, last, calls, aux >>

\* publish_file: check_git_status(&config.website_repo)?
PublishPreflight(g) ==
    /\ pc = "preflight" /\ op = "publish"
    /\ LET r == check_git_status(g) IN
       IF ~r.ok THEN Return(r) ELSE Continue("materialize")
    /\ pre' = IF Healthy(g) THEN "pass" ELSE "fail"
    /\ UNCHANGED << op, arg, year, found, clock, files, dirs, tree, index, head,
                    cmds, start, last, calls, aux >>

\* mutant of PublishMaterialize: the source is moved, not copied
PublishMaterializeMoves(mkdirOk) ==
    /\ pc = "materialize" /\ op = "publish"
    /\ year' = YearStr(clock)
    /\ IF ~mkdirOk /\ year' \notin dirs
       THEN /\ Return(Err(ErrCreateDir))
            /\ UNCHANGED << dirs, tree, files >>
       ELSE /\ dirs' = dirs \cup {year'}
            /\ IF files[arg.src] = None
               THEN /\ Return(Err(ErrCopy))
                    /\ UNCHANGED << tree, files >>
               ELSE /\ tree' = [tree EXCEPT ![<<year', arg.slug>>] = files[arg.src]]
                    /\ files' = [files EXCEPT ![arg.src] = None]
                    /\ Continue("add")
    /\ UNCHANGED << op, arg, found, clock, index, head, cmds, pre, start, last, calls, aux >>

\* publish_file: year, create_dir_all(dest_dir), fs::copy(source, dest).
\* create_dir_all can only fail for a directory that does not exist yet.
PublishMaterialize(mkdirOk) ==
    /\ pc = "materialize" /\ op = "publish"
    /\ year' = YearStr(clock)
    /\ IF ~mkdirOk /\ year' \notin dirs
       THEN /\ Return(Err(ErrCreateDir))
            /\ UNCHANGED << dirs, tree >>
       ELSE /\ dirs' = dirs \cup {year'}
            /\ IF files[arg.src] = None
               THEN /\ Return(Err(ErrCopy))
                    /\ UNCHANGED tree
               ELSE /\ tree' = [tree EXCEPT ![<<year', arg.slug>>] = files[arg.src]]
                    /\ Continue("add")
    /\ UNCHANGED << op, arg, found, clock, files, index, head, cmds, pre, start, last, calls, aux >>

\* publish_file: git add <dest_path>
PublishAdd(o) ==
    /\ pc = "add" /\ op = "publish"
    /\ cmds' = Append(cmds, Issued("add", o))
    /\ IF o.spawn
       THEN Return(Err(ErrAddSpawn)) /\ UNCHANGED index
       ELSE IF ~o.success
       THEN Return(Err(<<"Git add failed: {}", o.stderr>>)) /\ UNCHANGED index
       ELSE /\ index' = [index EXCEPT ![<<year, arg.slug>>] = tree[<<year, arg.slug>>]]
            /\ Continue("commit")
    /\ UNCHANGED << op, arg, year, found, clock, files, dirs, tree, head, pre, start, last, calls, aux >>

\* mutant of CommitStep: any non-zero exit of git commit is an error
CommitStepStrict(o) ==
    /\ pc = "commit"
    /\ o \in CommitOuts(index # head)
    /\ cmds' = Append(cmds, Issued("commit", o))
    /\ IF o.spawn
       THEN Return(Err(ErrCommitSpawn))
       ELSE IF ~o.success
       THEN Return(Err(<<"Git commit failed: {}", o.stderr>>))
       ELSE Continue("pull")
    /\ head' = IF ~o.spawn /\ o.success THEN index ELSE head
    /\ UNCHANGED << op, arg, year, found, clock, files, dirs, tree, index, pre, start, last,
          calls, aux >>

\* git commit -m <msg>, and what the code does with its result
CommitStep(o) ==
    /\ pc = "commit"
    /\ o \in CommitOuts(index # head)
    /\ cmds' = Append(cmds, Issued("commit", o))
    /\ IF o.spawn
       THEN Return(Err(ErrCommitSpawn))
       ELSE Continue("pull")
    /\ head' = IF ~o.spawn /\ o.success THEN index ELSE head
    /\ UNCHANGED << op, arg, year, found, clock, files, dirs, tree, index, pre, start, last,
          calls, aux >>

\* mutant of PullStep: a failed pull returns without the rebase cleanup
PullStepNoAbort(o) ==
    /\ pc = "pull"
    /\ cmds' = Append(cmds, Issued("pull", o))
    /\ IF o.spawn
       THEN Return(Err(ErrPullSpawn))
       ELSE IF ~o.success
       THEN Return(Err(<<"Git pull failed: {}\n{}", <<o.stdout, o.stderr>> >>))
       ELSE Continue("push")
    /\ UNCHANGED << op, arg, year, found, clock, files, dirs, tree, index, head,
                    pre, start, last, calls, aux >>

\* git pull --rebase --autostash
PullStep(o) ==
    /\ pc = "pull"
    /\ cmds' = Append(cmds, Issued("pull", o))
    /\ IF o.spawn
       THEN Return(Err(ErrPullSpawn))
       ELSE IF ~o.success
       THEN Continue("abort")
       ELSE Continue("push")
    /\ UNCHANGED << op, arg, year, found, clock, files, dirs, tree, index, head,
                    pre, start, last, calls, aux >>

\* mutant of AbortStep: the cleanup also puts the working tree back
AbortStepRollsBack(o) ==
    /\ pc = "abort"
    /\ LET pull_output == cmds[Len(cmds)].out IN
       Return(Err(<<"Git pull failed: {}\n{}", <<pull_output.stdout, pull_output.stderr>> >>))
    /\ cmds' = Append(cmds, Issued("rebase --abort", o))
    /\ tree' = start.tree
    /\ UNCHANGED << op, arg, year, found, clock, files, dirs, index, head,
                    pre, start, last, calls, aux >>

\* mutant of AbortStep: after the cleanup the pull is tried again
AbortStepRetriesPull(o) ==
    /\ pc = "abort"
    /\ Continue("pull")
    /\ cmds' = Append(cmds, Issued("rebase --abort", o))
    /\ UNCHANGED << op, arg, year, found, clock, files, dirs, tree, index, head,
                    pre, start, last, calls, aux >>

\* after a failed pull: git rebase --abort, result ignored, then the error
AbortStep(o) ==
    /\ pc = "abort"
    /\ LET pull_output == cmds[Len(cmds)].out IN
       Return(Err(<<"Git pull failed: {}\n{}", <<pull_output.stdout, pull_output.stderr>> >>))
    /\ cmds' = Append(cmds, Issued("rebase --abort", o))
    /\ UNCHANGED << op, arg, year, found, clock, files, dirs, tree, index, head,
                    pre, start, last, calls, aux >>

\* git push, and the value returned when it went through
PushStep(o, value) ==
    /\ pc = "push"
    /\ cmds' = Append(cmds, Issued("push", o))
    /\ IF o.spawn
       THEN Return(Err(<<"Git push failed: {}">>))
       ELSE IF ~o.success
               /\ ~Contains(o.stderr, <<EverythingUpToDate>>)
               /\ ~Contains(o.stderr, <<UpToDate>>)
       THEN Return(Err(<<"Git push failed: {}", o.stderr>>))
       ELSE Return(Ok(value))
    /\ UNCHANGED << op, arg, year, found, clock, files, dirs, tree, index, head,
                    pre, start, last, calls, aux >>

PublishCommit(o) == op = "publish" /\ CommitStep(o)
PublishPull(o) == op = "publish" /\ PullStep(o)
PublishAbort(o) == op = "publish" /\ AbortStep(o)
PublishPush(o) == op = "publish" /\ PushStep(o, Url(year, arg.slug))

\* unpublish_file, entry
UnpublishCall(slug) ==
    /\ Begin("unpublish", [src |-> <<>>, slug |-> slug])
    /\ Continue("preflight")
    /\ UNCHANGED << clock, files, dirs, tree, index, head >>

\* unpublish_file: check_git_status(&config.website_repo)?
UnpublishPreflight(g) ==
    /\ pc = "preflight" /\ op = "unpublish"
    /\ LET r == check_git_status(g) IN
       IF ~r.ok THEN Return(r) ELSE Continue("materialize")
    /\ pre' = IF Healthy(g) THEN "pass" ELSE "fail"
    /\ UNCHANGED << op, arg, year, found, clock, files, dirs, tree, index, head,
                    cmds, start, last, calls, aux >>

\* the year directories in which unpublish_file's read_dir loop can stop
\* for a slug (enumeration order is the file system's)
SourceDirs(slug) ==
    {dir_name \in dirs \cap DirNames :
        IsYearDir(dir_name) /\ tree[<<dir_name, slug>>] # None}

\* mutant of UnpublishMaterialize: the file is copied, not moved
UnpublishMaterializeCopies(mkdirOk, renameOk) ==
    /\ pc = "materialize" /\ op = "unpublish"
    /\ IF ~mkdirOk /\ DraftsLoc \notin dirs
       THEN /\ Return(Err(ErrCreateDrafts))
            /\ UNCHANGED << dirs, tree, found >>
       ELSE /\ dirs' = dirs \cup {DraftsLoc}
            /\ IF SourceDirs(arg.slug) = {}
               THEN /\ Return(Err(ErrNotFound))
                    /\ UNCHANGED << tree, found >>
               ELSE \E dir_name \in SourceDirs(arg.slug) :
                    /\ found' = dir_name
                    /\ IF tree[<<DraftsLoc, arg.slug>>] # None
                       THEN /\ Return(Err(ErrDraftExists))
                            /\ UNCHANGED tree
                       ELSE IF ~renameOk
                       THEN /\ Return(Err(ErrMove))
                            /\ UNCHANGED tree
                       ELSE /\ tree' = [tree EXCEPT
                                          ![<<DraftsLoc, arg.slug>>] = tree[<<dir_name, arg.slug>>]]
                            /\ Continue("add")
    /\ UNCHANGED << op, arg, year, clock, files, index, head, cmds, pre, start, last, calls, aux >>

\* mutant of UnpublishMaterialize: the existing-draft test is missing
UnpublishMaterializeOverwrites(mkdirOk, renameOk) ==
    /\ pc = "materialize" /\ op = "unpublish"
    /\ IF ~mkdirOk /\ DraftsLoc \notin dirs
       THEN /\ Return(Err(ErrCreateDrafts))
            /\ UNCHANGED << dirs, tree, found >>
       ELSE /\ dirs' = dirs \cup {DraftsLoc}
            /\ IF SourceDirs(arg.slug) = {}
               THEN /\ Return(Err(ErrNotFound))
                    /\ UNCHANGED << tree, found >>
               ELSE \E dir_name \in SourceDirs(arg.slug) :
                    /\ found' = dir_name
                    /\ IF ~renameOk
                       THEN /\ Return(Err(ErrMove))
                            /\ UNCHANGED tree
                       ELSE /\ tree' = [tree EXCEPT
                                          ![<<DraftsLoc, arg.slug>>] = tree[<<dir_name, arg.slug>>],
                                          ![<<dir_name, arg.slug>>] = None]
                            /\ Continue("add")
    /\ UNCHANGED << op, arg, year, clock, files, index, head, cmds, pre, start, last, calls, aux >>

\* unpublish_file: create the drafts directory, find the published file,
\* refuse an existing draft, fs::rename
UnpublishMaterialize(mkdirOk, renameOk) ==
    /\ pc = "materialize" /\ op = "unpublish"
    /\ IF ~mkdirOk /\ DraftsLoc \notin dirs
       THEN /\ Return(Err(ErrCreateDrafts))
            /\ UNCHANGED << dirs, tree, found >>
       ELSE /\ dirs' = dirs \cup {DraftsLoc}
            /\ IF SourceDirs(arg.slug) = {}
               THEN /\ Return(Err(ErrNotFound))
                    /\ UNCHANGED << tree, found >>
               ELSE \E dir_name \in SourceDirs(arg.slug) :
                    /\ found' = dir_name
                    /\ IF tree[<<DraftsLoc, arg.slug>>] # None
                       THEN /\ Return(Err(ErrDraftExists))
                            /\ UNCHANGED tree
                       ELSE IF ~renameOk
                       THEN /\ Return(Err(ErrMove))
                            /\ UNCHANGED tree
                       ELSE /\ tree' = [tree EXCEPT
                                          ![<<DraftsLoc, arg.slug>>] = tree[<<dir_name, arg.slug>>],
                                          ![<<dir_name, arg.slug>>] = None]
                            /\ Continue("add")
    /\ UNCHANGED << op, arg, year, clock, files, index, head, cmds, pre, start, last, calls, aux >>

\* unpublish_file: git add -A <source_path> <dest_path>
UnpublishAdd(o) ==
    /\ pc = "add" /\ op = "unpublish"
    /\ cmds' = Append(cmds, Issued("add", o))
    /\ IF o.spawn
       THEN Return(Err(ErrAddSpawn)) /\ UNCHANGED index
       ELSE IF ~o.success
       THEN Return(Err(<<"Git add failed: {}", o.stderr>>)) /\ UNCHANGED index
       ELSE /\ index' = [index EXCEPT
                           ![<<found, arg.slug>>] = tree[<<found, arg.slug>>],
                           ![<<DraftsLoc, arg.slug>>] = tree[<<DraftsLoc, arg.slug>>]]
            /\ Continue("commit")
    /\ UNCHANGED << op, arg, year, found, clock, files, dirs, tree, head, pre, start, last, calls, aux >>

UnpublishCommit(o) == op = "unpublish" /\ CommitStep(o)
UnpublishPull(o) == op = "unpublish" /\ PullStep(o)
UnpublishAbort(o) == op = "unpublish" /\ AbortStep(o)
UnpublishPush(o) == op = "unpublish" /\ PushStep(o, <<>>)

\* the calendar year advances; an invocation reads it once, so a change
\* during an invocation is the same as one just before or after it
Tick ==
    /\ pc \in {"idle", "done"}
    /\ clock + 1 \in Years
    /\ clock' = clock + 1
    /\ UNCHANGED << pc, op, arg, year, found, files, dirs, tree, index, head,
                    cmds, result, pre, start, last, calls, aux >>

Next ==
    \/ \E source_path \in SrcPaths, slug \in Slugs : PublishCheck(source_path, slug)
    \/ \E g \in Probes : PublishPreflight(g)
    \/ \E mkdirOk \in BOOLEAN : PublishMaterialize(mkdirOk)
    \/ \E o \in AddOuts : PublishAdd(o)
    \/ \E o \in (CommitOuts(TRUE) \cup CommitOuts(FALSE)) : PublishCommit(o)
    \/ \E o \in PullOuts : PublishPull(o)
    \/ \E o \in AbortOuts : PublishAbort(o)
    \/ \E o \in PushOuts : PublishPush(o)
    \/ \E slug \in Slugs : UnpublishCall(slug)
    \/ \E g \in Probes : UnpublishPreflight(g)
    \/ \E mkdirOk \in BOOLEAN, renameOk \in BOOLEAN : UnpublishMaterialize(mkdirOk, renameOk)
    \/ \E o \in AddOuts : UnpublishAdd(o)
    \/ \E o \in (CommitOuts(TRUE) \cup CommitOuts(FALSE)) : UnpublishCommit(o)
    \/ \E o \in PullOuts : UnpublishPull(o)
    \/ \E o \in AbortOuts : UnpublishAbort(o)
    \/ \E o \in PushOuts : UnpublishPush(o)
    \/ Tick

Spec == Init /\ [][Next]_vars

\* ================================================================ claims
Done == pc = "done"

\* the publication tree and the repository are as the invocation found them
NothingMutated ==
    /\ dirs = start.dirs
    /\ tree = start.tree
    /\ index = start.index
    /\ head = start.head

Failed(c) == c.out.spawn \/ ~c.out.success

\* captured output (either stream) holding a phrase
Says(c, phrase) ==
    Contains(c.out.stdout, <<phrase>>) \/ Contains(c.out.stderr, <<phrase>>)

\* a failure the pipeline is specified to tolerate
Benign(c) ==
    /\ ~c.out.spawn
    /\ \/ c.cmd = "commit" /\ Says(c, NothingToCommit)
       \/ c.cmd = "push" /\ (Says(c, EverythingUpToDate) \/ Says(c, UpToDate))

PipelineCmds == <<"add", "commit", "pull", "push">>

\* the file the running publish writes
Dest == <<year, arg.slug>>

\* ---------------------------------------------------------------- C1
\* C1: when the preflight check fails (not a git working copy, no current
\* branch, unresolved conflicts, or a probe that could not run), publish and
\* unpublish return an error, the publication tree is as it was (no
\* directory created, no file copied or moved) and no git add / commit /
\* pull / push was issued.
C1_PreflightFailureMutatesNothing ==
    pre = "fail" =>
        /\ Done
        /\ ~result.ok
        /\ NothingMutated
        /\ cmds = <<>>

C1_Witness ==
    /\ pre = "fail"
    /\ op = "unpublish"
    /\ result = Err(ErrDetached)
    /\ \E s \in Slugs : SourceDirs(s) # {}

\* ---------------------------------------------------------------- C2
\* C2: the first non-benign failure of git add, commit, pull or push ends
\* the invocation with an error and no later pipeline step runs (only the
\* rebase --abort cleanup may follow); in particular a commit that exits
\* non-zero without "nothing to commit" is followed by neither pull nor push.
C2_FirstFailureEndsInvocation ==
    \A i \in 1..Len(cmds) :
        (cmds[i].cmd \in {"add", "commit", "pull", "push"}
            /\ Failed(cmds[i]) /\ ~Benign(cmds[i])) =>
        /\ \A j \in (i + 1)..Len(cmds) : cmds[j].cmd = "rebase --abort"
        /\ pc \in {"abort", "done"}
        /\ Done => ~result.ok

\* ---------------------------------------------------------------- C3
\* C3: whenever publish returns a URL or unpublish returns unit, the commit
\* step created a commit or reported only "nothing to commit", the written
\* file is part of the last commit, and the push succeeded or reported
\* up-to-date.
C3_SuccessMeansCommittedAndPushed ==
    (Done /\ result.ok) =>
        /\ Len(cmds) = 4
        /\ \A i \in 1..4 : cmds[i].cmd = PipelineCmds[i]
                           /\ (~Failed(cmds[i]) \/ Benign(cmds[i]))
        /\ op = "publish" => head[Dest] = tree[Dest]
        /\ op = "unpublish" => head[<<DraftsLoc, arg.slug>>] = tree[<<DraftsLoc, arg.slug>>]

\* ---------------------------------------------------------------- C4
\* C4: publish with a source_path that does not start with the vault root,
\* or that contains neither "/blog/" nor "/drafts/", returns an error before
\* the preflight check runs and before any file or git mutation.
C4_BadSourcePathRejectedFirst ==
    (op = "publish"
        /\ (~StartsWith(arg.src, VaultPath)
            \/ (~Contains(arg.src, BlogSeg) /\ ~Contains(arg.src, DraftsSeg)))) =>
        /\ Done
        /\ ~result.ok
        /\ pre = "none"
        /\ NothingMutated
        /\ cmds = <<>>

\* ---------------------------------------------------------------- C5
\* C5: publish of a source path that passes the integrity check but names a
\* missing or unreadable file returns an error and leaves the publication
\* tree as it was: no year directory created, no file written, no git
\* command issued.
C5_MissingSourceMutatesNothing ==
    (op = "publish" /\ Done /\ PathAllowed(arg.src) /\ files[arg.src] = None) =>
        /\ ~result.ok
        /\ NothingMutated
        /\ cmds = <<>>

\* ---------------------------------------------------------------- C6
\* C6: when git pull --rebase --autostash exits non-zero, git rebase --abort
\* is invoked exactly once before the invocation returns, git push is never
\* invoked, and the invocation returns an error whether the abort succeeds
\* or fails.
PullExitedNonZero ==
    \E i \in 1..Len(cmds) :
        cmds[i].cmd = "pull" /\ ~cmds[i].out.spawn /\ ~cmds[i].out.success

Count(cmd) == Cardinality({i \in 1..Len(cmds) : cmds[i].cmd = cmd})

C6_FailedPullAbortsRebase ==
    PullExitedNonZero =>
        /\ pc \in {"abort", "done"}
        /\ Count("push") = 0
        /\ Count("rebase --abort") = (IF Done THEN 1 ELSE 0)
        /\ Done => ~result.ok

C6_Witness ==
    /\ Done
    /\ PullExitedNonZero
    /\ Failed(cmds[Len(cmds)])
    /\ cmds[Len(cmds)].cmd = "rebase --abort"
    /\ op = "unpublish"

\* ---------------------------------------------------------------- C7
\* C7: the mutating git commands of an invocation are a prefix of add,
\* commit, pull, push, in that order and each at most once; rebase --abort
\* is issued only directly after a pull that failed, and ends the sequence.
C7_CommandsInPipelineOrder ==
    \A i \in 1..Len(cmds) :
        IF cmds[i].cmd = "rebase --abort"
        THEN /\ i = 4
             /\ Len(cmds) = 4
             /\ cmds[3].cmd = "pull"
             /\ Failed(cmds[3])
        ELSE /\ i <= 4
             /\ cmds[i].cmd = PipelineCmds[i]

C7_Witness ==
    /\ Done
    /\ op = "unpublish"
    /\ Len(cmds) = 4
    /\ cmds[4].cmd = "push"

\* ---------------------------------------------------------------- C8
\* C8: a publish that repeats the previous successful publish (same source
\* path, same slug, same year, source content unchanged, nothing left
\* uncommitted by the first), with every other git step succeeding,
\* returns success with the same URL: its commit exits non-zero with
\* "nothing to commit", pull and push are still issued, and the publication
\* tree is as the first call left it.
Republish ==
    /\ op = "publish"
    /\ last.op = "publish"
    /\ last.result.ok
    /\ last.arg = arg
    /\ start.index = start.head
    /\ year = last.year

\* add, pull and push exit zero, and git commit runs to its own verdict on
\* the index (it is neither unlaunchable nor refused for another reason)
OthersSucceed ==
    \A i \in 1..Len(cmds) :
        IF cmds[i].cmd = "commit"
        THEN ~cmds[i].out.spawn
             /\ (cmds[i].out.success \/ Says(cmds[i], NothingToCommit))
        ELSE ~Failed(cmds[i])

C8_RepublishIsIdempotent ==
    (Republish /\ Done /\ OthersSucceed) =>
        /\ result = last.result
        /\ Len(cmds) = 4
        /\ cmds[2].cmd = "commit"
        /\ ~cmds[2].out.spawn /\ ~cmds[2].out.success
        /\ Says(cmds[2], NothingToCommit)
        /\ cmds[3].cmd = "pull"
        /\ cmds[4].cmd = "push"
        /\ tree = start.tree
        /\ dirs = start.dirs

C8_Witness ==
    /\ Republish /\ Done /\ OthersSucceed
    /\ result.ok
    /\ tree[Dest] = "c1"

\* ---------------------------------------------------------------- C9
\* C9: when git push exits non-zero, the invocation returns success if the
\* captured output (standard-out or standard-error) says the remote is up
\* to date, and an error for every other push failure.
C9_PushUpToDateIsSuccess ==
    (Done /\ Len(cmds) = 4 /\ cmds[4].cmd = "push"
        /\ ~cmds[4].out.spawn /\ ~cmds[4].out.success) =>
        (result.ok <=> (Says(cmds[4], EverythingUpToDate) \/ Says(cmds[4], UpToDate)))

\* ---------------------------------------------------------------- C10
\* C10: unpublish(slug) called when content/drafts/<slug>.md already exists
\* returns an error, moves nothing (the published file stays in its year
\* directory, the draft keeps its content) and issues no git command.
DraftExisted == start.tree[<<DraftsLoc, arg.slug>>] # None

C10_ExistingDraftIsNotOverwritten ==
    (op = "unpublish" /\ DraftExisted) =>
        /\ pc \in {"preflight", "materialize", "done"}
        /\ Done => ~result.ok
        /\ tree = start.tree
        /\ cmds = <<>>

C10_Witness ==
    /\ op = "unpublish" /\ DraftExisted /\ Done
    /\ result = Err(ErrDraftExists)
    /\ found # <<>>
    /\ tree[<<found, arg.slug>>] # None

\* ---------------------------------------------------------------- C11
\* C11: unpublish(slug) returns an error without moving a file and without
\* a git command when no four-digit year directory holds <slug>.md; when
\* the move runs, the file is gone from the year directory it was found in
\* and is in content/drafts with the same content, and once git add has
\* exited zero both the old and the new path are staged.
NowherePublished ==
    \A d \in DirNames :
        IsYearDir(d) => (d \notin start.dirs \/ start.tree[<<d, arg.slug>>] = None)

From == <<found, arg.slug>>
Draft == <<DraftsLoc, arg.slug>>

C11_UnpublishMovesOrRefuses ==
    /\ (op = "unpublish" /\ NowherePublished) =>
          /\ pc \in {"preflight", "materialize", "done"}
          /\ Done => ~result.ok
          /\ tree = start.tree /\ index = start.index /\ head = start.head
          /\ cmds = <<>>
    /\ (op = "unpublish" /\ cmds # <<>>) =>
          /\ IsYearDir(found)
          /\ start.tree[From] # None
          /\ tree[From] = None
          /\ tree[Draft] = start.tree[From]
          /\ \A p \in Paths \ {From, Draft} : tree[p] = start.tree[p]
          /\ (~Failed(cmds[1])) => (index[From] = None /\ index[Draft] = tree[Draft])

C11_Witness ==
    /\ op = "unpublish" /\ Done /\ result.ok
    /\ index[From] = None /\ index[Draft] = "c0"
    /\ start.tree[Draft] = None

\* ---------------------------------------------------------------- C12
\* C12: starting from a publication tree in which every slug has at most
\* one published copy, after any sequence of publish and unpublish
\* invocations every slug has at most one <slug>.md across the year
\* directories.
PublishedIn(slug) ==
    {d \in dirs \cap DirNames : IsYearDir(d) /\ tree[<<d, slug>>] # None}

C12_OneLocationPerSlug ==
    \A slug \in Slugs : Cardinality(PublishedIn(slug)) <= 1

\* ---------------------------------------------------------------- C13
\* C13: when git add, git pull or git push fails after Materialize, the
\* file mutation stays: after a failed publish the copied file is at
\* content/blog/<year>/<slug>.md, after a failed unpublish the file is in
\* content/drafts and absent from its year directory.
FailedAfterMaterialize == Done /\ ~result.ok /\ cmds # <<>>

C13_NoRollbackAfterGitFailure ==
    FailedAfterMaterialize =>
        /\ op = "publish" => (year \in dirs /\ tree[Dest] = files[arg.src])
        /\ op = "unpublish" => (tree[From] = None /\ tree[Draft] = start.tree[From]
                                /\ tree[Draft] # None)

C13_Witness ==
    /\ FailedAfterMaterialize
    /\ op = "unpublish"
    /\ cmds[Len(cmds)].cmd = "rebase --abort"

\* ---------------------------------------------------------------- C14
\* C14: when the previous invocation was a publish that failed after its
\* file was copied and before that file was committed, the next invocation
\* whose git commit exits zero commits that file, though it is an
\* invocation for another slug.
PendingCopy(p) ==
    /\ calls >= 2 /\ last = NoCall
    /\ IsYearDir(p[1])
    /\ start.tree[p] # None
    /\ start.tree[p] # start.head[p]

CommitExitedZero ==
    \E i \in 1..Len(cmds) : cmds[i].cmd = "commit" /\ ~Failed(cmds[i])

C14_NextCommitPicksUpPendingCopy ==
    \A p \in Paths :
        (PendingCopy(p) /\ p[2] # arg.slug /\ CommitExitedZero) => head[p] = start.tree[p]

\* ---------------------------------------------------------------- C15
\* C15: a successful publish returns https://ejfox.com/blog/<year>/<slug>
\* whose <year> is the year of the destination content/blog/<year>/<slug>.md
\* written by that invocation; a successful unpublish returns no URL.
C15_UrlNamesTheDestinationYear ==
    (Done /\ result.ok) =>
        /\ op = "publish" =>
              /\ Len(result.val) = 3
              /\ result.val[1] = "https://ejfox.com/blog/"
              /\ result.val[2] = year
              /\ result.val[3] = arg.slug
              /\ result.val[2] \in dirs
              /\ tree[<<result.val[2], result.val[3]>>] = files[arg.src]
        /\ op = "unpublish" => result.val = <<>>

C15_Witness ==
    /\ Done /\ result.ok /\ op = "publish"
    /\ result.val[2] = YearStr(2026)
    /\ start.tree[<<YearStr(2026), arg.slug>>] = None
    /\ last.op = "unpublish" /\ last.result.val = <<>>

\* ------------------------------------------------------------------ scan
\* "/{dir}/" for a directory name
Segment(dir) == <<"/">> \o dir \o <<"/">>

\* publishable_dirs of get_recent_files
publishable_dirs == {<<"b", "l", "o", "g">>, <<"d", "r", "a", "f", "t", "s">>}

\* Config::default().excluded_dirs
excluded_dirs ==
    {<<"w", "e", "e", "k", "-", "n", "o", "t", "e", "s">>,
     <<"r", "o", "b", "o", "t", "-", "n", "o", "t", "e", "s">>,
     <<"p", "r", "i", "v", "a", "t", "e">>,
     <<"t", "e", "m", "p", "l", "a", "t", "e", "s">>,
     <<"a", "t", "t", "a", "c", "h", "m", "e", "n", "t", "s">>,
     <<"d", "r", "a", "f", "t", "s">>}

MdExt == <<".", "m", "d">>

\* the last of the three path tests of get_recent_files
in_stale(path_str) ==
    \/ Contains(path_str, <<"/", "_", "s", "t", "a", "l", "e", "/">>)
    \/ Contains(path_str, <<"/", "_", "a", "r", "c", "h", "i", "v", "e", "/">>)

\* mutant of Included: a publishable segment is enough
IncludedThoughExcluded(path_str) ==
    /\ \E dir \in publishable_dirs : Contains(path_str, Segment(dir))
    /\ ~in_stale(path_str)

Included(path_str) ==
    /\ \E dir \in publishable_dirs : Contains(path_str, Segment(dir))
    /\ ~\E dir \in excluded_dirs : Contains(path_str, Segment(dir))
    /\ ~in_stale(path_str)

\* Path::file_name: what follows the last "/"
FileName(path) ==
    LET slashes == {i \in 1..Len(path) : path[i] = "/"}
        cut == IF slashes = {} THEN 0 ELSE CHOOSE i \in slashes : \A j \in slashes : j <= i
    IN SubSeq(path, cut + 1, Len(path))

\* str::ends_with
EndsWith(s, p) ==
    /\ Len(p) <= Len(s)
    /\ \A i \in 1..Len(p) : s[Len(s) - Len(p) + i] = p[i]

\* str::trim_end_matches: the suffix is removed as often as it occurs
RECURSIVE trim_end_matches(_, _)
trim_end_matches(s, p) ==
    IF Len(p) > 0 /\ EndsWith(s, p)
    THEN trim_end_matches(SubSeq(s, 1, Len(s) - Len(p)), p)
    ELSE s

\* the path WalkDir yields for a vault document (the source paths above
\* are written without their ".md" ending)
WalkedPath(src) == src \o MdExt

\* let slug = filename.trim_end_matches(".md")
slug_of(path) ==
    LET slug == trim_end_matches(FileName(path), MdExt)
    IN IF Len(slug) = 1 THEN slug[1] ELSE None

\* Option::None for published_url
NoUrl == <<>>

\* mutant of find_published_info: every directory under content/blog is
\* searched, not the four-digit ones only
find_published_info_any_dir(slug) ==
    LET hits == {dir_name \in dirs \cap DirNames : tree[<<dir_name, slug>>] # None}
    IN IF hits = {} THEN {NoUrl} ELSE {Url(dir_name, slug) : dir_name \in hits}

\* find_published_info: the published_url values it can return (the first
\* year directory, in the file system's enumeration order, holding the slug)
find_published_info(slug) ==
    LET hits == {dir_name \in dirs \cap DirNames :
                    IsYearDir(dir_name) /\ tree[<<dir_name, slug>>] # None}
    IN IF hits = {} THEN {NoUrl} ELSE {Url(dir_name, slug) : dir_name \in hits}

\* the vault documents get_recent_files builds a descriptor for
Scanned ==
    {src \in SrcPaths :
        /\ files[src] # None
        /\ StartsWith(src, VaultPath \o <<"/">>)
        /\ EndsWith(WalkedPath(src), MdExt)
        /\ Included(WalkedPath(src))}

\* published_url values of the descriptor of a scanned document
published_url(src) ==
    IF slug_of(WalkedPath(src)) \in Slugs
    THEN find_published_info(slug_of(WalkedPath(src)))
    ELSE {NoUrl}

\* ---------------------------------------------------------------- C16
\* C16: after a successful publish of a scanned vault document under blog/
\* whose slug had no published copy, the scan's descriptor for the slug has
\* published_url = Some(the URL publish returned); after a successful
\* unpublish of that slug following it, the descriptor has
\* published_url = None.
ScannedAs(src, slug) ==
    /\ src \in Scanned
    /\ Contains(src, BlogSeg)
    /\ slug_of(WalkedPath(src)) = slug

OnlyCopyAtStart(slug, y) ==
    \A d \in DirNames :
        IsYearDir(d) => ((d \in start.dirs /\ start.tree[<<d, slug>>] # None) <=> d = y)

C16_ScanFollowsPublishAndUnpublish ==
    /\ (Done /\ result.ok /\ op = "publish"
          /\ ScannedAs(arg.src, arg.slug) /\ NowherePublished)
       => published_url(arg.src) = {result.val}
    /\ (Done /\ result.ok /\ op = "unpublish"
          /\ last.op = "publish" /\ last.result.ok /\ last.arg.slug = arg.slug
          /\ ScannedAs(last.arg.src, arg.slug)
          /\ OnlyCopyAtStart(arg.slug, last.year))
       => published_url(last.arg.src) = {NoUrl}

C16_Witness ==
    /\ Done /\ result.ok /\ op = "unpublish" /\ calls = 2
    /\ last.op = "publish" /\ last.result.ok /\ last.arg.slug = arg.slug
    /\ ScannedAs(last.arg.src, arg.slug)
    /\ last.year = YearStr(2026)
    /\ OnlyCopyAtStart(arg.slug, last.year)
    /\ last.result.val = Url(YearStr(2026), arg.slug)
    /\ published_url(last.arg.src) = {NoUrl}

\* ========================================================= status commands
\* the publish pipeline is not running
PipelineHolding(d, t) ==
    /\ pc = "off"
    /\ op = None
    /\ arg = NoArg
    /\ year = <<>>
    /\ found = <<>>
    /\ clock = FirstYear
    /\ files = [p \in SrcPaths |-> None]
    /\ dirs = d
    /\ tree = t
    /\ index = tree
    /\ head = tree
    /\ cmds = <<>>
    /\ result = NoResult
    /\ pre = "none"
    /\ start = [dirs |-> dirs, tree |-> tree, index |-> index, head |-> head]
    /\ last = NoCall
    /\ calls = 0

PipelineOff == PipelineHolding({}, [p \in Paths |-> None])

pvars == << pc, op, arg, year, found, clock, files, dirs, tree, index, head,
            cmds, result, pre, start, last, calls >>

\* any git command outside a working copy
NotARepo == Out(FALSE, FALSE, <<>>, <<"fatal: not a git repository">>)

\* the answers one repository state can give to the probes: git status
\* --porcelain with its stdout as lines, git fetch --dry-run; without a
\* git binary nothing is launched, and outside a working copy every
\* command that is launched fails the same way
InitStatus ==
    LET LineOutside == <<" ", "M", " ", "R", "E", "A", "D", "M", "E", ".", "m", "d">>
        LineBlog ==
            <<"?", "?", " ", "c", "o", "n", "t", "e", "n", "t", "/", "b", "l",
             "o", "g", "/", "2", "0", "2", "5", "/", "a", ".", "m", "d">>
        PorcelainOuts ==
            {SpawnErr, NotARepo,
             Out(FALSE, TRUE, <<>>, <<>>),
             Out(FALSE, TRUE, <<LineOutside>>, <<>>),
             Out(FALSE, TRUE, <<LineBlog>>, <<>>),
             Out(FALSE, TRUE, <<LineBlog, LineOutside>>, <<>>)}
        FetchOuts ==
            {SpawnErr, Out(FALSE, FALSE, <<>>, <<"fatal: unable to access">>),
             Out(FALSE, TRUE, <<>>, <<>>)}
        Refused(o) == ~o.spawn /\ ~o.success
        Consistent(g) ==
            /\ g.revparse.spawn =>
                  g.status.spawn /\ g.branch.spawn /\ g.conflicts.spawn /\ g.fetch.spawn
            /\ Refused(g.revparse) =>
                  /\ ~g.status.success /\ ~g.branch.success /\ ~g.conflicts.success
                  /\ ~g.fetch.success
            /\ g.revparse.success =>
                  ~Refused(g.status) /\ ~Refused(g.branch) /\ ~Refused(g.conflicts)
    IN
    /\ PipelineOff
    /\ ScanOff
    /\ TextOff
    /\ git \in {g \in [revparse : RevParseOuts, status : PorcelainOuts,
                       branch : BranchOuts \cup {NotARepo},
                       conflicts : ConflictOuts \cup {NotARepo}, fetch : FetchOuts] :
                    Consistent(g)}
    /\ spc = "rev-parse"
    /\ ran = <<>>
    /\ verdict = NoResult
    /\ report = <<>>

\* check_git_status returns r
Returns(r) == spc' = "returned" /\ verdict' = r

\* check_git_status goes on to the next probe
Proceeds(next) == spc' = next /\ UNCHANGED verdict

\* output.lines().filter(|l| !l.contains("content/blog/"))
dirty_files(stdout) ==
    SelectSeq(stdout, LAMBDA l :
        ~Contains(l, <<"c", "o", "n", "t", "e", "n", "t", "/", "b", "l", "o", "g", "/">>))

\* git rev-parse --git-dir
RevParseStep ==
    /\ spc = "rev-parse"
    /\ ran' = Append(ran, "rev-parse")
    /\ IF git.revparse.spawn THEN Returns(Err(ErrNotRepoSpawn))
       ELSE IF ~git.revparse.success THEN Returns(Err(ErrNotRepo))
       ELSE Proceeds("status")
    /\ UNCHANGED << pvars, scanvars, textvars, git, report >>

\* git status --porcelain: dirty files are logged only
PorcelainStep ==
    /\ spc = "status"
    /\ ran' = Append(ran, "status")
    /\ IF git.status.spawn THEN Returns(Err(ErrStatus))
       ELSE Proceeds("branch")
    /\ UNCHANGED << pvars, scanvars, textvars, git, report >>

\* mutant of BranchStep: an empty branch name does not end the check
BranchStepKeepsGoing ==
    /\ spc = "branch"
    /\ ran' = Append(ran, "branch")
    /\ IF git.branch.spawn THEN Returns(Err(ErrBranch))
       ELSE Proceeds("diff")
    /\ UNCHANGED << pvars, scanvars, textvars, git, report >>

\* git branch --show-current
BranchStep ==
    /\ spc = "branch"
    /\ ran' = Append(ran, "branch")
    /\ IF git.branch.spawn THEN Returns(Err(ErrBranch))
       ELSE IF str_trim(git.branch.stdout) = <<>> THEN Returns(Err(ErrDetached))
       ELSE Proceeds("diff")
    /\ UNCHANGED << pvars, scanvars, textvars, git, report >>

\* git diff --name-only --diff-filter=U
ConflictStep ==
    /\ spc = "diff"
    /\ ran' = Append(ran, "diff")
    /\ IF git.conflicts.spawn THEN Returns(Err(ErrConflictSpawn))
       ELSE IF str_trim(git.conflicts.stdout) # <<>> THEN Returns(Err(ErrConflicts))
       ELSE Proceeds("fetch")
    /\ UNCHANGED << pvars, scanvars, textvars, git, report >>

\* mutant of FetchStep: a fetch that fails ends the check with an error
FetchStepPropagates ==
    /\ spc = "fetch"
    /\ ran' = Append(ran, "fetch")
    /\ IF git.fetch.spawn \/ ~git.fetch.success
       THEN Returns(Err(<<"Git fetch failed: {}">>))
       ELSE Returns(Ok(<<>>))
    /\ UNCHANGED << pvars, scanvars, textvars, git, report >>

\* git fetch --dry-run, result dropped, then Ok(())
FetchStep ==
    /\ spc = "fetch"
    /\ ran' = Append(ran, "fetch")
    /\ Returns(Ok(<<>>))
    /\ UNCHANGED << pvars, scanvars, textvars, git, report >>

\* Option::None for GitStatus.error
NoError == <<>>

\* get_git_status without the empty-branch arm of its error chain
get_git_status_any_branch(g) ==
    LET branch == IF g.branch.spawn THEN <<>> ELSE str_trim(g.branch.stdout)
        dirty == IF g.status.spawn THEN <<>> ELSE dirty_files(g.status.stdout)
        conflicts == IF g.conflicts.spawn THEN FALSE ELSE str_trim(g.conflicts.stdout) # <<>>
        error == IF conflicts THEN <<"Merge conflicts - resolve before publishing">>
                 ELSE IF dirty # <<>> THEN <<"{} uncommitted changes", Len(dirty)>>
                 ELSE NoError
    IN [ok |-> error = NoError, branch |-> branch, error |-> error,
        dirty_files |-> dirty, has_conflicts |-> conflicts]

\* get_git_status: the GitStatus it builds from the probes' answers
get_git_status(g) ==
    LET branch == IF g.branch.spawn THEN <<>> ELSE str_trim(g.branch.stdout)
        dirty == IF g.status.spawn THEN <<>> ELSE dirty_files(g.status.stdout)
        conflicts == IF g.conflicts.spawn THEN FALSE ELSE str_trim(g.conflicts.stdout) # <<>>
        error == IF conflicts THEN <<"Merge conflicts - resolve before publishing">>
                 ELSE IF dirty # <<>> THEN <<"{} uncommitted changes", Len(dirty)>>
                 ELSE IF branch = <<>> THEN <<"Detached HEAD">>
                 ELSE NoError
    IN [ok |-> error = NoError, branch |-> branch, error |-> error,
        dirty_files |-> dirty, has_conflicts |-> conflicts]

\* the get_git_status command
GetGitStatus ==
    /\ report = <<>>
    /\ report' = <<get_git_status(git)>>
    /\ UNCHANGED << pvars, scanvars, textvars, git, spc, ran, verdict >>

NextStatus ==
    \/ RevParseStep
    \/ PorcelainStep
    \/ BranchStep
    \/ ConflictStep
    \/ FetchStep
    \/ GetGitStatus

SpecStatus == InitStatus /\ [][NextStatus]_vars

\* ---------------------------------------------------------------- C17
\* C17: check_git_status tests (1) working copy, (2) non-empty branch,
\* (3) no conflict files in that order and returns at the first failure:
\* the reason is the earliest failing condition's (detached HEAD with
\* conflicts is reported as detached HEAD) and no probe runs after it.
ProbeOrder == <<"rev-parse", "status", "branch", "diff", "fetch">>

Returned == spc = "returned"

\* the probe, by the repository's answer, makes the check fail
FailingProbe(name) ==
    CASE name = "rev-parse" -> git.revparse.spawn \/ ~git.revparse.success
      [] name = "status" -> git.status.spawn
      [] name = "branch" -> git.branch.spawn \/ str_trim(git.branch.stdout) = <<>>
      [] name = "diff" -> git.conflicts.spawn \/ str_trim(git.conflicts.stdout) # <<>>
      [] OTHER -> FALSE

Reasons(name) ==
    CASE name = "rev-parse" -> {ErrNotRepoSpawn, ErrNotRepo}
      [] name = "status" -> {ErrStatus}
      [] name = "branch" -> {ErrBranch, ErrDetached}
      [] name = "diff" -> {ErrConflictSpawn, ErrConflicts}
      [] OTHER -> {}

DetachedWithConflicts ==
    /\ git.revparse.success /\ ~git.status.spawn
    /\ ~git.branch.spawn /\ str_trim(git.branch.stdout) = <<>>
    /\ ~git.conflicts.spawn /\ str_trim(git.conflicts.stdout) # <<>>

C17_PreflightOrderAndShortCircuit ==
    /\ ran = SubSeq(ProbeOrder, 1, Len(ran))
    /\ \A i \in 1..(Len(ran) - 1) : ~FailingProbe(ran[i])
    /\ (Returned /\ ~verdict.ok) =>
          /\ FailingProbe(ran[Len(ran)])
          /\ verdict.val \in Reasons(ran[Len(ran)])
    /\ (Returned /\ verdict.ok) => ran = ProbeOrder
    /\ (Returned /\ DetachedWithConflicts) =>
          /\ verdict = Err(ErrDetached)
          /\ ran = <<"rev-parse", "status", "branch">>
    /\ Returned => verdict = check_git_status(git)

C17_Witness ==
    /\ Returned /\ DetachedWithConflicts
    /\ verdict = Err(ErrDetached)

\* ---------------------------------------------------------------- C18
\* C18: check_git_status returns Ok for a working copy with a non-empty
\* branch and no conflict files, whatever git status lists as dirty and
\* whether or not git fetch --dry-run fails or can be launched.
ProbesLaunched ==
    ~git.revparse.spawn /\ ~git.status.spawn /\ ~git.branch.spawn /\ ~git.conflicts.spawn

HealthyRepository ==
    /\ ProbesLaunched
    /\ git.revparse.success
    /\ str_trim(git.branch.stdout) # <<>>
    /\ str_trim(git.conflicts.stdout) = <<>>

C18_DirtyFilesAndFetchDoNotBlock ==
    (Returned /\ HealthyRepository) => (verdict = Ok(<<>>) /\ ran = ProbeOrder)

C18_Witness ==
    /\ Returned /\ HealthyRepository /\ verdict.ok
    /\ dirty_files(git.status.stdout) # <<>>
    /\ git.fetch.spawn

\* ---------------------------------------------------------------- C19
\* C19: the GitStatus of get_git_status has ok = (no conflict files) and
\* (branch non-empty) and (the repository check succeeded), whatever the
\* dirty file list is, and error is None exactly when ok is true.
RepositoryCheckSucceeded == ~git.revparse.spawn /\ git.revparse.success

C19_ValidityIgnoresDirtyFiles ==
    \A i \in 1..Len(report) :
        /\ report[i].ok = (/\ ~report[i].has_conflicts
                           /\ report[i].branch # <<>>
                           /\ RepositoryCheckSucceeded)
        /\ (report[i].error = NoError) <=> report[i].ok

\* ---------------------------------------------------------------- C29
\* C29: for every repository state, when get_git_status reports ok = true
\* check_git_status on the same state returns Ok, and the reported branch
\* is non-empty and no conflict files are reported.  A repository state
\* answers every probe from the same environment: git is launched for all
\* of them or for none.
SameEnvironment ==
    /\ git.status.spawn = git.revparse.spawn
    /\ git.branch.spawn = git.revparse.spawn
    /\ git.conflicts.spawn = git.revparse.spawn

C29_ValidStatusImpliesPreflightOk ==
    \A i \in 1..Len(report) :
        (report[i].ok /\ SameEnvironment) =>
            /\ report[i].branch # <<>>
            /\ ~report[i].has_conflicts
            /\ check_git_status(git).ok
            /\ Returned => verdict.ok

C29_Witness ==
    /\ Returned /\ verdict.ok
    /\ SameEnvironment
    /\ Len(report) = 1 /\ report[1].ok

MaxBody == 3

\* str::find: byte offset of the first occurrence, -1 for None
str_find(s, p) ==
    LET hits == {k \in 0..(Len(s) - Len(p)) : \A i \in 1..Len(p) : s[k + i] = p[i]}
    IN IF hits = {} THEN -1 ELSE CHOOSE k \in hits : \A j \in hits : k <= j

\* &s[n..]
str_from(s, n) == SubSeq(s, n + 1, Len(s))

\* str::lines: split at "\n", a "\r" before it dropped, no empty last line
RECURSIVE str_lines(_)
str_lines(s) ==
    IF s = <<>> THEN <<>>
    ELSE LET k == str_find(s, <<"\n">>) IN
         IF k = -1 THEN <<s>>
         ELSE LET line == SubSeq(s, 1, k) IN
              << IF line # <<>> /\ line[Len(line)] = "\r"
                 THEN SubSeq(line, 1, Len(line) - 1) ELSE line >>
              \o str_lines(str_from(s, k + 1))

\* [T]::join
RECURSIVE str_join(_, _)
str_join(parts, sep) ==
    IF parts = <<>> THEN <<>>
    ELSE IF Len(parts) = 1 THEN parts[1]
    ELSE parts[1] \o sep \o str_join(Tail(parts), sep)

Dashes == <<"-", "-", "-">>

\* the body normalize_content and parse_frontmatter keep: what follows the
\* closing --- of a header that opens the text
body_of(content) ==
    IF StartsWith(content, Dashes)
    THEN LET end == str_find(str_from(content, 3), Dashes) IN
         IF end # -1 THEN str_from(content, end + 6) ELSE content
    ELSE content

\* normalize_content: header dropped, body trimmed, lines right-trimmed
normalize_content(content) ==
    LET ls == str_lines(str_trim(body_of(content)))
    IN str_join([i \in 1..Len(ls) |-> str_trim_end(ls[i])], <<"\n">>)

content_differs(source, published) ==
    IF source = published THEN FALSE
    ELSE normalize_content(source) # normalize_content(published)

\* texts of at most n of the characters x, space and newline
RECURSIVE Bodies(_)
Bodies(n) ==
    IF n = 0 THEN {<<>>}
    ELSE Bodies(n - 1) \cup
         {Append(b, c) : b \in {t \in Bodies(n - 1) : Len(t) = n - 1}, c \in {"x", " ", "\n"}}

Texts ==
    LET Headers ==
            {<<>>, <<"-", "-", "-", "\n", "k", "\n", "-", "-", "-">>, <<"-", "-", "-", "\n",
             "j", "\n", "-", "-", "-">>}
    IN {h \o b : h \in Headers, b \in Bodies(MaxBody)}

InitDrift ==
    /\ PipelineOff
    /\ StatusOff
    /\ ScanOff
    /\ text \in Texts
    /\ other \in Texts
    /\ outcome = <<>>
    /\ steps = 0

\* content_differs(source, published) is called
Differs ==
    /\ steps = 0
    /\ outcome' = <<content_differs(text, other)>>
    /\ steps' = 1
    /\ UNCHANGED << pvars, statusvars, scanvars, text, other >>

NextDrift == Differs

SpecDrift == InitDrift /\ [][NextDrift]_vars

\* ---------------------------------------------------------------- C27
\* C27: content_differs is false for a byte-identical pair, false for a
\* pair that differs only in the header block and in trailing whitespace
\* of lines, and true for every other difference in the body, a
\* difference in leading whitespace or leading blank lines included.
\* the lines of the body with the whitespace at the end of each line and
\* at the end of the body removed
RightTrimmedLines(content) ==
    LET ls == str_lines(str_trim_end(body_of(content)))
    IN [i \in 1..Len(ls) |-> str_trim_end(ls[i])]

C27_DriftIsAnyOtherBodyDifference ==
    \A i \in 1..Len(outcome) :
        /\ text = other => ~outcome[i]
        /\ RightTrimmedLines(text) = RightTrimmedLines(other) => ~outcome[i]
        /\ RightTrimmedLines(text) # RightTrimmedLines(other) => outcome[i]

\* ------------------------------------------------------------ frontmatter
\* str::trim_matches for a set of characters
RECURSIVE trim_matches(_, _)
trim_matches(s, chars) ==
    IF s # <<>> /\ Head(s) \in chars THEN trim_matches(Tail(s), chars)
    ELSE IF s # <<>> /\ s[Len(s)] \in chars
    THEN trim_matches(SubSeq(s, 1, Len(s) - 1), chars)
    ELSE s

\* the (key, value) pairs parse_frontmatter inserts, in the order of the
\* header's lines: a line is split at its first colon (str::split_once),
\* a line without one is skipped
RECURSIVE yaml_pairs(_)
yaml_pairs(ls) ==
    IF ls = <<>> THEN <<>>
    ELSE LET line == Head(ls)
             k == str_find(line, <<":">>)
         IN (IF k = -1 THEN <<>>
             ELSE << <<str_trim(SubSeq(line, 1, k)),
                       trim_matches(str_trim(str_from(line, k + 1)), {"\""})>> >>)
            \o yaml_pairs(Tail(ls))

\* parse_frontmatter: [frontmatter, body]
parse_frontmatter(content) ==
    LET end == IF StartsWith(content, Dashes)
               THEN str_find(str_from(content, 3), Dashes) ELSE -1
    IN IF end = -1
       THEN [frontmatter |-> <<>>, body |-> content]
       ELSE [frontmatter |-> yaml_pairs(str_lines(SubSeq(content, 4, end + 3))),
             body |-> str_from(content, end + 6)]

\* HashMap::contains_key
contains_key(frontmatter, key) ==
    \E i \in 1..Len(frontmatter) : frontmatter[i][1] = key

\* HashMap::get on a present key: the value inserted last
get(frontmatter, key) ==
    LET at == {i \in 1..Len(frontmatter) : frontmatter[i][1] = key}
    IN frontmatter[CHOOSE i \in at : \A j \in at : j <= i][2]

KeyModified == <<"m", "o", "d", "i", "f", "i", "e", "d">>

\* value of a decimal digit
DigitVal(c) == CHOOSE n \in 0..9 : DigitChar(n) = c

IsLeap(y) == (y % 4 = 0 /\ y % 100 # 0) \/ y % 400 = 0

DaysIn(m, y) ==
    IF m = 2 THEN (IF IsLeap(y) THEN 29 ELSE 28)
    ELSE IF m \in {4, 6, 9, 11} THEN 30 ELSE 31

RECURSIVE DaysBeforeYear(_)
DaysBeforeYear(y) ==
    IF y <= 1970 THEN 0
    ELSE DaysBeforeYear(y - 1) + (IF IsLeap(y - 1) THEN 366 ELSE 365)

RECURSIVE DaysBeforeMonth(_, _)
DaysBeforeMonth(m, y) ==
    IF m <= 1 THEN 0 ELSE DaysBeforeMonth(m - 1, y) + DaysIn(m - 1, y)

\* parse_iso_date for the "%Y-%m-%d" form, years 1970 to 2037: seconds
\* since the epoch at midnight UTC; -1 for None (texts here hold no
\* RFC 3339 date-times)
parse_iso_date(date_str) ==
    IF /\ Len(date_str) = 10
       /\ date_str[5] = "-" /\ date_str[8] = "-"
       /\ \A i \in {1, 2, 3, 4, 6, 7, 9, 10} : date_str[i] \in DigitChars
    THEN LET y == DigitVal(date_str[1]) * 1000 + DigitVal(date_str[2]) * 100
                  + DigitVal(date_str[3]) * 10 + DigitVal(date_str[4])
             m == DigitVal(date_str[6]) * 10 + DigitVal(date_str[7])
             d == DigitVal(date_str[9]) * 10 + DigitVal(date_str[10])
         IN IF y \in 1970..2037 /\ m \in 1..12 /\ d >= 1 /\ d <= DaysIn(m, y)
            THEN (DaysBeforeYear(y) + DaysBeforeMonth(m, y) + d - 1) * 86400
            ELSE -1
    ELSE -1

\* --------------------------------------------------------------- warnings
WModified == "Modified since publish"

\* has_long_link_text: a [text](target) that no "!" precedes, text and
\* target non-empty, whose text has more than max_words words
\* (str::split_whitespace().count())
has_long_link_text(body, max_words) ==
    LET word_count(s) ==
            Cardinality({i \in 1..Len(s) :
                s[i] \notin Whitespace /\ (i = 1 \/ s[i - 1] \in Whitespace)})
    IN \E i \in 1..Len(body), j \in 1..Len(body), k \in 1..Len(body) :
        /\ body[i] = "[" /\ i + 1 < j /\ body[j] = "]"
        /\ \A n \in (i + 1)..(j - 1) : body[n] # "]"
        /\ j + 2 < k /\ body[j + 1] = "(" /\ body[k] = ")"
        /\ \A n \in (j + 2)..(k - 1) : body[n] # ")"
        /\ ~(i > 1 /\ body[i - 1] = "!")
        /\ word_count(SubSeq(body, i + 1, j - 1)) > max_words

\* Vec::push when cond holds
PushIf(warnings, cond, w) == IF cond THEN Append(warnings, w) ELSE warnings

\* check_warnings: of broken_image_patterns, a body that contains
\* "cloudinary" is excused for all but the first two
check_warnings(body, frontmatter) ==
    LET has(p) == Contains(body, p)
        contains(warnings, w) == \E i \in 1..Len(warnings) : warnings[i] = w
        cloudinary == <<"c", "l", "o", "u", "d", "i", "n", "a", "r", "y">>
        https == <<"h", "t", "t", "p", "s", ":", "/", "/">>
        broken_link_patterns ==
            {<<"]", "(", ")">>, <<"]", "(", "#", ")">>,
             <<"]", "(", "h", "t", "t", "p", ")">>, <<"[", "[", "]", "]">>,
             <<"!", "[", "]", "(">>}
        strict_image_patterns ==
            {<<"!", "[", "]", "(", ")">>, <<"s", "r", "c", "=", "\"", "\"">>}
        excusable_image_patterns ==
            {<<"s", "r", "c", "=", "'", "'">>,
             <<".", "p", "n", "g", ")">>,
             <<".", "j", "p", "g", ")">>,
             <<".", "j", "p", "e", "g", ")">>,
             <<".", "g", "i", "f", ")">>,
             <<"]", "(", "a", "t", "t", "a", "c", "h", "m", "e", "n", "t", "s", "/">>,
             <<"]", "(", "A", "t", "t", "a", "c", "h", "m", "e", "n", "t", "s", "/">>,
             <<"]", "(", "a", "s", "s", "e", "t", "s", "/">>,
             <<"]", "(", "i", "m", "a", "g", "e", "s", "/">>}
        w1 == PushIf(<<>>, ~contains_key(frontmatter, <<"d", "a", "t", "e">>), "No date")
        w2 == PushIf(w1, has(<<"T", "O", "D", "O">>) \/ has(<<"F", "I", "X", "M", "E">>),
                     "Has TODOs")
        w3 == PushIf(w2, \/ has(<<"]", "(", ".", "/">>)
                         \/ has(<<"]", "(", "/", "a", "t", "t", "a", "c", "h", "m", "e", "n", "t",
                               "s">>),
                     "Local images")
        w4 == PushIf(w3, \E p \in broken_link_patterns : has(p), "Broken link")
        has_local_media ==
            \/ \E p \in strict_image_patterns : has(p)
            \/ (\E p \in excusable_image_patterns : has(p)) /\ ~has(cloudinary)
        w5 == PushIf(w4, has_local_media /\ ~contains(w4, "Local images"), "Local media")
        w6 == PushIf(w5, /\ has(<<"<", "i", "m", "g">>) /\ ~has(cloudinary) /\ ~has(https)
                         /\ ~contains(w5, "Local media"),
                     "Local media")
        w7 == PushIf(w6, /\ \/ has(<<"<", "v", "i", "d", "e", "o">>)
                            \/ has(<<".", "m", "p", "4", ")">>)
                            \/ has(<<".", "w", "e", "b", "m", ")">>)
                         /\ ~has(cloudinary) /\ ~has(https),
                     "Local video")
    IN PushIf(w7, has_long_link_text(body, 4), "Long link text")

\* ==================================================================== scan
MaxFiles == 3
MaxLimit == 2

\* files a vault can hold
VBlogA == <<"/", "v", "/", "b", "l", "o", "g", "/", "a", ".", "m", "d">>
VBlogPrivateA ==
    <<"/", "v", "/", "b", "l", "o", "g", "/", "p", "r", "i", "v", "a", "t", "e", "/", "a", ".",
     "m", "d">>
VPrivateBlogB ==
    <<"/", "v", "/", "p", "r", "i", "v", "a", "t", "e", "/", "b", "l", "o", "g", "/", "b", ".",
     "m", "d">>

Candidates ==
    LET VDraftsB ==
            <<"/", "v", "/", "d", "r", "a", "f", "t", "s", "/", "b", ".", "m", "d">>
        VBlogStaleA ==
            <<"/", "v", "/", "b", "l", "o", "g", "/", "_", "s", "t", "a", "l", "e", "/", "a",
             ".", "m", "d">>
        VBlogTxt ==
            <<"/", "v", "/", "b", "l", "o", "g", "/", "a", ".", "t", "x", "t">>
        VBlogPrivateerB ==
            <<"/", "v", "/", "b", "l", "o", "g", "/", "p", "r", "i", "v", "a", "t", "e", "e",
             "r", "/", "b", ".", "m", "d">>
        VBlogSubA ==
            <<"/", "v", "/", "b", "l", "o", "g", "/", "x", "/", "a", ".", "m", "d">>
        VMyblogB ==
            <<"/", "v", "/", "m", "y", "b", "l", "o", "g", "/", "b", ".", "m", "d">>
    IN {VBlogA, VDraftsB, VBlogPrivateA, VPrivateBlogB, VBlogStaleA, VBlogTxt,
        VBlogPrivateerB, VBlogSubA, VMyblogB}

\* modification times fs::metadata can report
Mtimes == {1, 2}

\* Path::extension: what follows the last "." of the file name, when the
\* file name has one that is not its first character
extension(path) ==
    LET name == FileName(path)
        dots == {i \in 2..Len(name) : name[i] = "."}
    IN IF dots = {} THEN <<>>
       ELSE SubSeq(name, (CHOOSE i \in dots : \A j \in dots : j <= i) + 1, Len(name))

\* files.sort_by(|a, b| b.modified.cmp(&a.modified)): stable, newest first
RECURSIVE sort_by_modified(_)
sort_by_modified(seq) ==
    IF seq = <<>> THEN <<>>
    ELSE LET sorted == sort_by_modified(SubSeq(seq, 1, Len(seq) - 1))
             d == seq[Len(seq)]
             k == Cardinality({i \in 1..Len(sorted) : sorted[i].modified >= d.modified})
         IN SubSeq(sorted, 1, k) \o <<d>> \o SubSeq(sorted, k + 1, Len(sorted))

\* mutant of truncate: the last n elements are kept
truncate_keeps_tail(seq, n) ==
    IF Len(seq) > n THEN SubSeq(seq, Len(seq) - n + 1, Len(seq)) ELSE seq

\* Vec::truncate
truncate(seq, n) == IF Len(seq) > n THEN SubSeq(seq, 1, n) ELSE seq

\* contents a vault document can have; "" is also what an unreadable
\* document is read as (unwrap_or_default)
DocClean ==
    <<"-", "-", "-", "\n", "d", "a", "t", "e", ":", " ", "1", "9", "7", "0", "-", "0", "1",
     "-", "0", "2", "\n", "-", "-", "-", "\n", "x">>
VaultTexts ==
    LET DocTodo ==
            <<"-", "-", "-", "\n", "m", "o", "d", "i", "f", "i", "e", "d", ":", " ", "1", "9",
             "7", "0", "-", "0", "1", "-", "0", "2", "\n", "-", "-", "-", "\n", "x", " ", "T",
             "O", "D", "O">>
    IN {<<>>, DocClean, DocTodo}

\* contents a published copy can have
PublishedTexts == {<<"x">>, <<"y">>}

InitScan ==
    /\ \E held \in {{YearStr(2025), MiscDir}, {MiscDir}} :
          PipelineHolding(held, [p \in Paths |->
                                   IF p[2] = "a" /\ p[1] \in held THEN "c0" ELSE None])
    /\ StatusOff
    /\ TextOff
    /\ root \in BOOLEAN
    /\ vault \in {v \in SUBSET Candidates : Cardinality(v) <= MaxFiles /\ (~root => v = {})}
    /\ todo = IF root THEN vault ELSE {VaultPath}
    /\ limit = 0
    /\ listing = <<>>
    /\ scanned = NoResult

\* mutant of located: the publication tree is not consulted
located_nowhere(entry) == {NoUrl}

\* the published_url values find_published_info can return for an entry
located(entry) ==
    IF slug_of(entry) \in Slugs THEN find_published_info(slug_of(entry)) ELSE {NoUrl}

\* mutant of with_drift: the warning goes to the end of the list
with_drift_appended(warnings, content, published_content) ==
    IF published_content # <<>> /\ content_differs(content, published_content[1])
    THEN Append(warnings, WModified)
    ELSE warnings

\* warnings.insert(0, "Modified since publish") when a published content
\* was read and content_differs
with_drift(warnings, content, published_content) ==
    IF published_content # <<>> /\ content_differs(content, published_content[1])
    THEN <<WModified>> \o warnings
    ELSE warnings

\* mutant of MarkdownFile: is_safe is taken from check_warnings alone
MarkdownFileSafeBeforeDrift(entry, fs_modified, content, url, published_content) ==
    LET parsed == parse_frontmatter(content)
        frontmatter == parsed.frontmatter
        from_header == IF contains_key(frontmatter, KeyModified)
                       THEN parse_iso_date(get(frontmatter, KeyModified)) ELSE -1
        warnings == with_drift(check_warnings(parsed.body, frontmatter),
                               content, published_content)
    IN [path |-> entry,
        slug |-> trim_end_matches(FileName(entry), MdExt),
        modified |-> IF from_header # -1 THEN from_header ELSE fs_modified,
        is_safe |-> check_warnings(parsed.body, frontmatter) = <<>>,
        warnings |-> warnings,
        published_url |-> url]

\* the descriptor get_recent_files pushes for an entry
MarkdownFile(entry, fs_modified, content, url, published_content) ==
    LET parsed == parse_frontmatter(content)
        frontmatter == parsed.frontmatter
        from_header == IF contains_key(frontmatter, KeyModified)
                       THEN parse_iso_date(get(frontmatter, KeyModified)) ELSE -1
        warnings == with_drift(check_warnings(parsed.body, frontmatter),
                               content, published_content)
    IN [path |-> entry,
        slug |-> trim_end_matches(FileName(entry), MdExt),
        modified |-> IF from_header # -1 THEN from_header ELSE fs_modified,
        is_safe |-> warnings = <<>>,
        warnings |-> warnings,
        published_url |-> url]

\* one turn of the WalkDir loop of get_recent_files (a missing root makes
\* the walk yield one error and nothing else): the entry is skipped
\* when the walk reports an error for it, when it is not a .md file, when
\* its path fails one of the three path tests or when fs::metadata fails;
\* otherwise its descriptor is pushed
ScanVisit(entry, walked, meta, content, url, published_content) ==
    /\ ~scanned.ok
    /\ entry \in todo
    /\ walked => entry \in vault
    /\ todo' = todo \ {entry}
    /\ IF /\ walked
          /\ extension(entry) = <<"m", "d">>
          /\ Included(entry)
          /\ meta \in Mtimes
       THEN /\ url \in located(entry)
            /\ url = NoUrl => published_content = <<>>
            /\ listing' = Append(listing,
                    MarkdownFile(entry, meta, content, url, published_content))
       ELSE /\ content = <<>> /\ url = NoUrl /\ published_content = <<>>
            /\ UNCHANGED listing
    /\ UNCHANGED << pvars, statusvars, textvars, root, vault, limit, scanned >>

\* the walk is over: sort, truncate(limit), Ok(files); the argument limit
\* is not read before this point
ScanReturn(n) ==
    /\ ~scanned.ok
    /\ todo = {}
    /\ limit' = n
    /\ scanned' = Ok(truncate(sort_by_modified(listing), n))
    /\ UNCHANGED << pvars, statusvars, textvars, root, vault, todo, listing >>

NextScan ==
    \/ \E entry \in Candidates \cup {VaultPath}, walked \in BOOLEAN,
          meta \in Mtimes \cup {0}, content \in VaultTexts,
          url \in {NoUrl} \cup {Url(YearStr(y), slug) : y \in Years, slug \in Slugs},
          published_content \in {<<>>} \cup {<<t>> : t \in PublishedTexts} :
          ScanVisit(entry, walked, meta, content, url, published_content)
    \/ \E n \in 0..MaxLimit : ScanReturn(n)

SpecScan == InitScan /\ [][NextScan]_vars

\* ---------------------------------------------------------------- C20
\* C20: a file is among the descriptors the scan collects (before and after
\* truncation) only if it is a markdown file one of whose directories is
\* named blog or drafts and none of whose directories has an excluded
\* name, whichever of the two comes first in the path.
RECURSIVE Split(_)
Split(s) ==
    LET slashes == {i \in 1..Len(s) : s[i] = "/"} IN
    IF slashes = {} THEN <<s>>
    ELSE LET i == CHOOSE i \in slashes : \A j \in slashes : i <= j
         IN <<SubSeq(s, 1, i - 1)>> \o Split(SubSeq(s, i + 1, Len(s)))

\* names of the directories on a path
DirSegments(path) ==
    LET parts == Split(path) IN {parts[i] : i \in 1..(Len(parts) - 1)}

Eligible(path) ==
    /\ DirSegments(path) \cap publishable_dirs # {}
    /\ DirSegments(path) \cap excluded_dirs = {}
    /\ EndsWith(path, MdExt)

C20_ExclusionWins ==
    /\ \A i \in 1..Len(listing) : listing[i].path \in vault /\ Eligible(listing[i].path)
    /\ scanned.ok => \A i \in 1..Len(scanned.val) : Eligible(scanned.val[i].path)

C20_Witness ==
    /\ scanned.ok
    /\ {VBlogA, VBlogPrivateA, VPrivateBlogB} \subseteq vault
    /\ Len(scanned.val) = 1
    /\ scanned.val[1].path = VBlogA
    /\ limit = 2

\* ---------------------------------------------------------------- C21
\* C21: the scan returns at most limit descriptors, newest first, and they
\* are the most recently modified of the included files: no descriptor
\* that was left out is newer than a returned one; limit 0 gives the
\* empty list.
ReturnedSet == {scanned.val[i] : i \in 1..Len(scanned.val)}
Collected == {listing[i] : i \in 1..Len(listing)}

C21_NewestFirstUpToLimit ==
    scanned.ok =>
        /\ Len(scanned.val) <= limit
        /\ Len(scanned.val) = IF Len(listing) < limit THEN Len(listing) ELSE limit
        /\ ReturnedSet \subseteq Collected
        /\ \A i, j \in 1..Len(scanned.val) :
              i < j => scanned.val[i].modified >= scanned.val[j].modified
        /\ \A d \in Collected \ ReturnedSet :
              \A r \in ReturnedSet : d.modified <= r.modified
        /\ limit = 0 => scanned.val = <<>>

C21_Witness ==
    /\ scanned.ok /\ limit = 2
    /\ Len(listing) = 3
    /\ listing[1].modified = 1 /\ listing[2].modified = 2 /\ listing[3].modified = 2
    /\ Len(scanned.val) = 2

\* ---------------------------------------------------------------- C22
\* C22: the scan fails only when the walk of the root cannot start, and a
\* missing vault root gives an error result; a failure on one file never
\* fails the scan and the file still has a descriptor in the result.
Visited == vault \ todo

C22_OnlyRootFailureFailsScan ==
    /\ scanned.ok => root
    /\ \A entry \in Visited :
          Eligible(entry) /\ ~in_stale(entry) => \E d \in Collected : d.path = entry

\* ---------------------------------------------------------------- C23
\* C23: no two descriptors of one scan result have the same slug, also
\* when the vault holds files of the same name in different publishable
\* subdirectories.
C23_SlugsUniqueInResult ==
    scanned.ok =>
        \A i, j \in 1..Len(scanned.val) :
            scanned.val[i].slug = scanned.val[j].slug => i = j

\* ---------------------------------------------------------------- C24
\* C24: a descriptor of the scan has published_url = Some exactly when a
\* directory directly under content/blog whose name is four ASCII digits
\* holds <slug>.md; a copy in a directory that is not a year gives None.
FourDigits(name) == Len(name) = 4 /\ \A i \in 1..4 : name[i] \in DigitChars

\* the directories under content/blog holding <slug>.md
HoldersOf(slug) ==
    {name \in dirs \cap DirNames : \E sl \in Slugs : <<sl>> = slug /\ tree[<<name, sl>>] # None}

Descriptors == Collected \cup ReturnedSet

C24_PublishedUrlIffInYearDirectory ==
    \A d \in Descriptors :
        /\ d.published_url # NoUrl <=> \E name \in HoldersOf(d.slug) : FourDigits(name)
        /\ d.published_url # NoUrl =>
              \E name \in HoldersOf(d.slug) :
                 /\ FourDigits(name)
                 /\ d.published_url = <<"https://ejfox.com/blog/", name, d.slug[1]>>

C24_Witness ==
    /\ scanned.ok
    /\ \E d \in ReturnedSet :
          /\ d.published_url = NoUrl
          /\ HoldersOf(d.slug) = {MiscDir}
    /\ \E d \in ReturnedSet : d.slug = <<"b">>

\* ---------------------------------------------------------------- C26
\* C26: every descriptor of the scan has is_safe = warnings.is_empty(),
\* also when 'Modified since publish' was added after the other warnings
\* were computed.
C26_SafeIffNoWarnings ==
    \A d \in Descriptors : d.is_safe <=> Len(d.warnings) = 0

C26_Witness ==
    /\ scanned.ok
    /\ \E d \in ReturnedSet : d.warnings = <<WModified>> /\ ~d.is_safe
    /\ \E d \in ReturnedSet : d.warnings = <<>> /\ d.is_safe

\* ============================================================== descriptor
\* a source text, what find_published_info returns for its slug (a located
\* copy is unreadable or has one of a few texts), and no descriptor yet
InitDescribe ==
    /\ PipelineOff
    /\ StatusOff
    /\ ScanOff
    /\ text \in Texts \cup VaultTexts
    /\ \E url \in {NoUrl, Url(YearStr(2025), "a")},
          published_content \in
              {<<>>} \cup {<<t>> : t \in PublishedTexts \cup {DocClean, <<"x", " ">>}} :
          /\ url = NoUrl => published_content = <<>>
          /\ other = [url |-> url, published_content |-> published_content]
    /\ outcome = <<>>
    /\ steps = 0

\* the body of the get_recent_files loop builds the descriptor of blog/a.md
Describe(fs_modified) ==
    /\ steps = 0
    /\ outcome' = <<MarkdownFile(VBlogA, fs_modified, text, other.url, other.published_content)>>
    /\ steps' = 1
    /\ UNCHANGED << pvars, statusvars, scanvars, text, other >>

NextDescribe == \E fs_modified \in Mtimes : Describe(fs_modified)

SpecDescribe == InitDescribe /\ [][NextDescribe]_vars

\* ---------------------------------------------------------------- C25
\* C25: a descriptor's warnings contain 'Modified since publish' exactly
\* when a published copy was located and read for its slug and
\* content_differs(source, published) is true; the warning is then the
\* first element of the list and occurs once.
DriftReported ==
    /\ other.url # NoUrl
    /\ other.published_content # <<>>
    /\ content_differs(text, other.published_content[1])

C25_ModifiedWarningIffDrift ==
    \A k \in 1..Len(outcome) :
        LET warnings == outcome[k].warnings IN
        /\ (\E i \in 1..Len(warnings) : warnings[i] = WModified) <=> DriftReported
        /\ DriftReported =>
              /\ warnings[1] = WModified
              /\ \A i \in 2..Len(warnings) : warnings[i] # WModified

C25_Witness ==
    /\ Len(outcome) = 1
    /\ DriftReported
    /\ Len(outcome[1].warnings) >= 2
    /\ outcome[1].warnings[1] = WModified

\* ==================================================================== tags
MaxAdds == 2

\* str::split(','): the pieces between the separators, empty ones kept
RECURSIVE str_split(_, _)
str_split(s, sep) ==
    LET k == str_find(s, <<sep>>) IN
    IF k = -1 THEN <<s>>
    ELSE <<SubSeq(s, 1, k)>> \o str_split(str_from(s, k + 1), sep)

\* str::trim_start_matches for a prefix string
RECURSIVE trim_start_matches(_, _)
trim_start_matches(s, p) ==
    IF StartsWith(s, p) THEN trim_start_matches(str_from(s, Len(p)), p) ELSE s

\* str::eq_ignore_ascii_case (u8::to_ascii_lowercase for the letters used
\* here)
eq_ignore_ascii_case(a, b) ==
    LET to_ascii_lowercase(c) == CASE c = "A" -> "a" [] c = "B" -> "b" [] OTHER -> c
    IN /\ Len(a) = Len(b)
       /\ \A i \in 1..Len(a) : to_ascii_lowercase(a[i]) = to_ascii_lowercase(b[i])

\* trim_matches(['[', ']']).split(',').map(trim).filter(non-empty)
tag_items(value) ==
    LET pieces == str_split(trim_matches(value, {"[", "]"}), ",")
    IN SelectSeq([i \in 1..Len(pieces) |-> str_trim(pieces[i])], LAMBDA t : t # <<>>)

\* parse_tags: the tag list a descriptor gets from the frontmatter
parse_tags(frontmatter) ==
    LET tags == <<"t", "a", "g", "s">> IN
    IF contains_key(frontmatter, tags) THEN tag_items(get(frontmatter, tags)) ELSE <<>>

\* format!("tags: [{}]", tags.join(", "))
tags_line(tags) == <<"t", "a", "g", "s", ":", " ", "[">> \o str_join(tags, <<",", " ">>) \o <<"]">>

\* the tags of an existing tags line after the new tag is considered: a
\* value that does not open with [ is one tag, whatever it contains
merged_tags(existing, tag) ==
    LET tags == IF StartsWith(existing, <<"[">>) THEN tag_items(existing)
                ELSE IF existing = <<>> THEN <<>> ELSE <<existing>>
    IN IF \E i \in 1..Len(tags) : eq_ignore_ascii_case(tags[i], tag)
       THEN tags ELSE Append(tags, tag)

\* add_tag_to_file on a file that was read: the result and the content to
\* write (none on Err)
add_tag_to_file(content, tag) ==
    IF ~StartsWith(content, Dashes)
    THEN [res |-> Ok(<<>>),
          write |-> <<Dashes \o <<"\n">> \o tags_line(<<tag>>) \o <<"\n">> \o Dashes
                      \o <<"\n">> \o content>>]
    ELSE LET end_pos == str_find(str_from(content, 3), Dashes) IN
         IF end_pos = -1
         THEN [res |-> Err(<<"Invalid frontmatter: no closing ---">>), write |-> <<>>]
         ELSE
         LET TagsColon == <<"t", "a", "g", "s", ":">>
             fm_content == SubSeq(content, 4, end_pos + 3)
             body == str_from(content, end_pos + 6)
             lines == SelectSeq(str_lines(fm_content), LAMBDA l : str_trim(l) # <<>>)
             at == {i \in 1..Len(lines) : StartsWith(lines[i], TagsColon)}
             new_lines ==
                 IF at = {} THEN Append(lines, tags_line(<<tag>>))
                 ELSE LET first == CHOOSE i \in at : \A j \in at : i <= j
                          existing == str_trim(trim_start_matches(lines[first], TagsColon))
                      IN [lines EXCEPT ![first] = tags_line(merged_tags(existing, tag))]
         IN [res |-> Ok(<<>>),
             write |-> <<Dashes \o <<"\n">> \o str_join(new_lines, <<"\n">>) \o <<"\n">>
                         \o Dashes \o body>>]

TagFiles ==
    LET FilePlain ==
            <<"x">>
        FileNoTags ==
            <<"-", "-", "-", "\n", "k", ":", " ", "v", "\n", "-", "-", "-", "\n", "x">>
        FileList ==
            <<"-", "-", "-", "\n", "t", "a", "g", "s", ":", " ", "[", "a", "]", "\n", "-", "-",
             "-", "\n", "x">>
        FileListTwo ==
            <<"-", "-", "-", "\n", "k", ":", " ", "v", "\n", "t", "a", "g", "s", ":", " ", "[",
             "a", ",", " ", "b", "]", "\n", "-", "-", "-", "\n">>
        FileScalar ==
            <<"-", "-", "-", "\n", "t", "a", "g", "s", ":", " ", "a", "\n", "-", "-", "-",
             "\n">>
        FileCommaScalar ==
            <<"-", "-", "-", "\n", "t", "a", "g", "s", ":", " ", "a", ",", " ", "b", "\n", "-",
             "-", "-", "\n", "x">>
        FileEmptyTags ==
            <<"-", "-", "-", "\n", "t", "a", "g", "s", ":", "\n", "-", "-", "-", "\n">>
        FileUnclosed ==
            <<"-", "-", "-", "\n", "k", ":", " ", "v", "\n">>
    IN {FilePlain, FileNoTags, FileList, FileListTwo,
        FileScalar, FileCommaScalar, FileEmptyTags, FileUnclosed}

InitTags ==
    /\ PipelineOff
    /\ StatusOff
    /\ ScanOff
    /\ text \in TagFiles
    /\ other = <<>>
    /\ outcome = <<>>
    /\ steps = 0

\* the add_tag_to_file command on the document: read, rewrite, write
AddTag(tag, readOk, writeOk) ==
    /\ steps < MaxAdds
    /\ steps' = steps + 1
    /\ other' = text
    /\ IF ~readOk
       THEN /\ outcome' = <<[tag |-> tag, res |-> Err(<<"Failed to read file: {}">>)]>>
            /\ UNCHANGED text
       ELSE LET r == add_tag_to_file(text, tag) IN
            IF ~r.res.ok
            THEN /\ outcome' = <<[tag |-> tag, res |-> r.res]>>
                 /\ UNCHANGED text
            ELSE IF ~writeOk
            THEN /\ outcome' = <<[tag |-> tag, res |-> Err(<<"Failed to write file: {}">>)]>>
                 /\ UNCHANGED text
            ELSE /\ outcome' = <<[tag |-> tag, res |-> r.res]>>
                 /\ text' = r.write[1]
    /\ UNCHANGED << pvars, statusvars, scanvars >>

\* the command is called with the tags a, A and b
NextTags ==
    \E tag \in {<<"a">>, <<"A">>, <<"b">>}, readOk \in BOOLEAN, writeOk \in BOOLEAN :
        AddTag(tag, readOk, writeOk)

SpecTags == InitTags /\ [][NextTags]_vars

\* ---------------------------------------------------------------- C28
\* C28: after a successful add_tag(t) the document's tag list holds the
\* tags it held before in the same order, then t when no tag of the list
\* equals t ignoring ASCII case; when one does the list is unchanged (so
\* a repeated add changes nothing); a list without duplicates stays so.
tag_list(content) == parse_tags(parse_frontmatter(content).frontmatter)

Holds(tags, t) == \E i \in 1..Len(tags) : eq_ignore_ascii_case(tags[i], t)

DuplicateFree(tags) ==
    \A i, j \in 1..Len(tags) : eq_ignore_ascii_case(tags[i], tags[j]) => i = j

C28_AddTagKeepsListDuplicateFree ==
    \A k \in 1..Len(outcome) :
        outcome[k].res.ok =>
            LET before == tag_list(other)
                after == tag_list(text)
                t == outcome[k].tag
            IN /\ after = IF Holds(before, t) THEN before ELSE Append(before, t)
               /\ DuplicateFree(before) => DuplicateFree(after)
====
